---------------------------- MODULE Spec2Model ----------------------------
(***************************************************************************)
(* PCDMBackend (src/PCDMBackend.cpp) and pCDM::PointCDMParameters           *)
(* (src/pCDM_types.cpp) as a state machine.                                 *)
(*                                                                          *)
(* Numbers.  pCDM::t_FP is modelled as a fixed-point number: the integer n  *)
(* stands for the real n / Den.  One unit is the smallest increment the     *)
(* format resolves, so std::numeric_limits<t_FP>::epsilon() is Epsilon = 1  *)
(* unit.  NaN is one extra value outside the range of every finite number   *)
(* of the model.  Angles (omega, strike, dip) are carried in degrees; the   *)
(* trigonometric functions are tabulated for whole quarter turns only, so   *)
(* the rotation angles offered to the model are multiples of 90 degrees.    *)
(***************************************************************************)
EXTENDS Integers, Sequences, FiniteSets, TLC

----------------------------------------------------------------------------
(* Bounds of the model *)

\* longest coordinate sequence handed to setHorizontalCoords
MaxLen == 2

----------------------------------------------------------------------------
(* t_FP arithmetic *)

\* units per 1.0
Den == 1000

\* std::numeric_limits<t_FP>::epsilon(), in units
Epsilon == 1

\* quiet NaN: outside the range of every finite value of the model
NaN == 0 - 2000000000

Abs(a) == IF a < 0 THEN 0 - a ELSE a

Sgn(a) == IF a < 0 THEN 0 - 1 ELSE IF a > 0 THEN 1 ELSE 0

\* integer quotient rounded toward zero, as C++ rounds symmetric in sign
TDiv(n, d) == Sgn(n) * Sgn(d) * (Abs(n) \div Abs(d))

\* IEEE comparisons: every ordered comparison with NaN is false
FGe(a, b) == a # NaN /\ b # NaN /\ a >= b
FLe(a, b) == a # NaN /\ b # NaN /\ a <= b
FLt(a, b) == a # NaN /\ b # NaN /\ a < b
FGt(a, b) == a # NaN /\ b # NaN /\ a > b
\* a != b of C++: true when either side is NaN
FNe(a, b) == a = NaN \/ b = NaN \/ a # b

FNeg(a) == IF a = NaN THEN NaN ELSE 0 - a
FAdd(a, b) == IF a = NaN \/ b = NaN THEN NaN ELSE a + b
FSub(a, b) == IF a = NaN \/ b = NaN THEN NaN ELSE a - b
FMul(a, b) == IF a = NaN \/ b = NaN THEN NaN ELSE TDiv(a * b, Den)
\* a quotient by zero is +-inf or NaN in the code; every such quotient of
\* PTDdispSurf meets a 0/0 or an inf - inf before it reaches a result, so the
\* model carries it as NaN from the start
FDiv(a, b) == IF a = NaN \/ b = NaN \/ b = 0 THEN NaN ELSE TDiv(a * Den, b)
\* std::abs
FAbs(a) == IF a = NaN THEN NaN ELSE Abs(a)

RECURSIVE Bisect(_, _, _)
\* the largest k in lo..hi with k * k <= n
Bisect(n, lo, hi) ==
    IF lo >= hi THEN lo
    ELSE LET mid == (lo + hi + 1) \div 2
         IN  IF mid * mid <= n THEN Bisect(n, mid, hi) ELSE Bisect(n, lo, mid - 1)

\* std::sqrt / Eigen sqrt(): sqrt(a / Den) * Den, rounded down
FSqrt(a) == IF a = NaN \/ a < 0 THEN NaN ELSE Bisect(a * Den, 0, 46000)

\* the constant 1.0, 2.0, ... of the code
Num(k) == k * Den

\* pi (src/PCDMBackend.cpp:34), as 355/113
pi == (355 * Den) \div 113

----------------------------------------------------------------------------
(* pCDM::PointCDMParameters *)

\* PointCDMParameters::isValid: the potencies share sign and depth >= 0
isValid(p) ==
    IF  /\ ~(FGe(p.dv[1], 0) /\ FGe(p.dv[2], 0) /\ FGe(p.dv[3], 0))
        /\ ~(FLe(p.dv[1], 0) /\ FLe(p.dv[2], 0) /\ FLe(p.dv[3], 0))
    THEN FALSE
    ELSE IF FLt(p.depth, 0)
    THEN FALSE
    ELSE TRUE

\* the two messages of PointCDMParameters::isValid
PotencyMessage == "Potencies (DV x, y, z) must have the same sign."

DepthMessage == "Depth must be a positive value."

\* isValidMessage with the fault "the two messages are exchanged"
isValidMessage_Exchanged(p) ==
    IF /\ ~(\A k \in 1..3 : FGe(p.dv[k], 0))
       /\ ~(\A k \in 1..3 : FLe(p.dv[k], 0))
    THEN DepthMessage
    ELSE IF FLt(p.depth, 0) THEN PotencyMessage
    ELSE ""

\* PointCDMParameters::isValid: what it writes to *errorMessage when the
\* caller supplies one
isValidMessage(p) ==
    IF /\ ~(\A k \in 1..3 : FGe(p.dv[k], 0))
       /\ ~(\A k \in 1..3 : FLe(p.dv[k], 0))
    THEN PotencyMessage
    ELSE IF FLt(p.depth, 0) THEN DepthMessage
    ELSE ""

\* the nine scalars compared by PointCDMParameters::operator==, in its order
Scalars(p) ==
    << p.horizontalCoord[1], p.horizontalCoord[2],
       p.depth,
       p.omega[1], p.omega[2], p.omega[3],
       p.dv[1], p.dv[2], p.dv[3] >>

\* PointCDMParameters::operator==: no scalar pair differs by more than epsilon
SourceEq(p, q) ==
    \A i \in 1..9 : ~FGt(FAbs(FSub(Scalars(p)[i], Scalars(q)[i])), Epsilon)

\* PCDMBackend::Parameters::operator==: nu is compared exactly
ParametersEq(a, b) ==
    /\ SourceEq(a.sourceParameters, b.sourceParameters)
    /\ ~FNe(a.nu, b.nu)

----------------------------------------------------------------------------
(* Trigonometry on whole quarter turns; angles in degrees, in units *)

\* the number of quarter turns of an angle that is a multiple of 90 degrees
Quarter(deg) == TDiv(deg, 90 * Den)

\* std::cos, std::sin of q quarter turns: -1, 0 or 1
CosQ(q) == CASE q % 4 = 0 -> 1 [] q % 4 = 2 -> 0 - 1 [] OTHER -> 0
SinQ(q) == CASE q % 4 = 1 -> 1 [] q % 4 = 3 -> 0 - 1 [] OTHER -> 0

\* Eigen::AngleAxis(angle, UnitX / UnitY / UnitZ) as a 3x3 matrix, q quarter turns
RotX(q) == << << 1, 0, 0 >>,
              << 0, CosQ(q), 0 - SinQ(q) >>,
              << 0, SinQ(q), CosQ(q) >> >>
RotY(q) == << << CosQ(q), 0, SinQ(q) >>,
              << 0, 1, 0 >>,
              << 0 - SinQ(q), 0, CosQ(q) >> >>
RotZ(q) == << << CosQ(q), 0 - SinQ(q), 0 >>,
              << SinQ(q), CosQ(q), 0 >>,
              << 0, 0, 1 >> >>

MatMul(A, B) ==
    [i \in 1..3 |-> [j \in 1..3 |->
        A[i][1] * B[1][j] + A[i][2] * B[2][j] + A[i][3] * B[3][j]]]

\* R = Rz * Ry * Rx of run(), each about the negated angle
Rotation(omega) ==
    MatMul(MatMul(RotZ(0 - Quarter(omega[3])), RotY(0 - Quarter(omega[2]))),
           RotX(0 - Quarter(omega[1])))

\* std::atan2(vx, vy) * 180 / pi of the normalized vector (vx, vy, 0), in
\* quarter turns; the zero vector gives NaN or 0, and NaN is set to 0
StrikeQ(vx, vy) ==
    CASE vx = 0 /\ vy = 0 -> 0
      [] vx = 0 /\ vy > 0 -> 0
      [] vx > 0 /\ vy = 0 -> 1
      [] vx = 0 /\ vy < 0 -> 2
      [] OTHER -> 0 - 1

\* std::acos of -1, 0, 1, in quarter turns
AcosQ(c) == CASE c = 1 -> 0 [] c = 0 -> 1 [] OTHER -> 2

\* strike of the PTD normal to axis k: atan2 of Vstrike = (-R(1,k), R(0,k), 0)
Strike(R, k) == StrikeQ(0 - R[2][k], R[1][k])

\* Dip with the fault "the first row of R is read, not the third"
Dip_FirstRow(R, k) == AcosQ(R[1][k])

\* dip of the PTD normal to axis k: acos(R(2,k))
Dip(R, k) == AcosQ(R[3][k])

----------------------------------------------------------------------------
(* PTDdispSurf, for one observation point (x, y).  The function is cut into *)
(* its consecutive blocks; each block receives the values computed so far   *)
(* as the record v and adds its own.                                        *)

\* translation by -xy0 and rotation by beta = (strike - 90) * pi / 180:
\* r_beta = Rz * XY^T
PTDrotated(v) ==
    [ cb |-> v.cb, sb |-> v.sb, d |-> v.d, DV |-> v.DV, nu |-> v.nu,
      sinDip |-> v.sinDip, cosDip |-> v.cosDip,
      aX |-> FSub(FMul(v.cb, v.X), FMul(v.sb, v.Y)),
      aY |-> FAdd(FMul(v.sb, v.X), FMul(v.cb, v.Y)) ]

\* aXSq, aYSq, nuScaled, sinDipSq
PTDsquares(v) ==
    [ cb |-> v.cb, sb |-> v.sb, d |-> v.d, DV |-> v.DV,
      sinDip |-> v.sinDip, cosDip |-> v.cosDip,
      aX |-> v.aX, aY |-> v.aY,
      aXSq |-> FMul(v.aX, v.aX),
      aYSq |-> FMul(v.aY, v.aY),
      nuScaled |-> FSub(Num(1), FMul(Num(2), v.nu)),
      sinDipSq |-> FMul(v.sinDip, v.sinDip) ]

\* r = sqrt(aXSq + aYSq + d * d) and q = aY * sin(dip) - d * cos(dip)
PTDradius(v) ==
    [ cb |-> v.cb, sb |-> v.sb, d |-> v.d, DV |-> v.DV,
      aX |-> v.aX, aY |-> v.aY, aXSq |-> v.aXSq, aYSq |-> v.aYSq,
      nuScaled |-> v.nuScaled, sinDipSq |-> v.sinDipSq,
      r |-> FSqrt(FAdd(FAdd(v.aXSq, v.aYSq), FMul(v.d, v.d))),
      q |-> FSub(FMul(v.aY, v.sinDip), FMul(v.d, v.cosDip)) ]

\* rCb = r^3, rd = r + d
PTDpowers1(v) ==
    [ cb |-> v.cb, sb |-> v.sb, d |-> v.d, DV |-> v.DV,
      aX |-> v.aX, aY |-> v.aY, aXSq |-> v.aXSq, aYSq |-> v.aYSq,
      nuScaled |-> v.nuScaled, sinDipSq |-> v.sinDipSq, r |-> v.r, q |-> v.q,
      rCb |-> FMul(FMul(v.r, v.r), v.r),
      rd |-> FAdd(v.r, v.d) ]

\* rdSq = rd^2, r^5
PTDpowers2(v) ==
    [ cb |-> v.cb, sb |-> v.sb, d |-> v.d, DV |-> v.DV,
      aX |-> v.aX, aY |-> v.aY, aXSq |-> v.aXSq, aYSq |-> v.aYSq,
      nuScaled |-> v.nuScaled, sinDipSq |-> v.sinDipSq, r |-> v.r, q |-> v.q,
      rCb |-> v.rCb, rd |-> v.rd,
      rdSq |-> FMul(v.rd, v.rd),
      rPow5 |-> FMul(FMul(v.rCb, v.r), v.r) ]

\* rdCb = rd^3, I1, I2, I5 and 3 * q^2 / r^5
PTDintegrals(v) ==
    [ cb |-> v.cb, sb |-> v.sb, d |-> v.d, DV |-> v.DV,
      aX |-> v.aX, aY |-> v.aY, nuScaled |-> v.nuScaled,
      sinDipSq |-> v.sinDipSq, rCb |-> v.rCb,
      I1 |-> FMul(FMul(v.nuScaled, v.aY),
                  FSub(FDiv(FDiv(Num(1), v.r), v.rdSq),
                       FDiv(FDiv(FMul(v.aXSq, FAdd(FMul(Num(3), v.r), v.d)), v.rCb),
                            FMul(v.rdSq, v.rd)))),
      I2 |-> FMul(FMul(v.nuScaled, v.aX),
                  FSub(FDiv(FDiv(Num(1), v.r), v.rdSq),
                       FDiv(FDiv(FMul(v.aYSq, FAdd(FMul(Num(3), v.r), v.d)), v.rCb),
                            FMul(v.rdSq, v.rd)))),
      I5 |-> FMul(v.nuScaled,
                  FSub(FDiv(FDiv(Num(1), v.r), v.rd),
                       FDiv(FDiv(FMul(v.aXSq, FAdd(FMul(Num(2), v.r), v.d)), v.rCb),
                            v.rdSq))),
      qSqTimes3DivRPow5 |-> FDiv(FMul(Num(3), FMul(v.q, v.q)), v.rPow5) ]

\* I3 = nuScaled * aX / rCb - I2, and ue_un_temp, ue_un_uv.col(2):
\* DV / 2 / pi * (...)
PTDtemp(v) ==
    [ cb |-> v.cb, sb |-> v.sb,
      t0 |-> FMul(FDiv(FDiv(v.DV, Num(2)), pi),
                  FSub(FMul(v.aX, v.qSqTimes3DivRPow5),
                       FMul(FSub(FDiv(FMul(v.nuScaled, v.aX), v.rCb), v.I2),
                            v.sinDipSq))),
      t1 |-> FMul(FDiv(FDiv(v.DV, Num(2)), pi),
                  FSub(FMul(v.aY, v.qSqTimes3DivRPow5), FMul(v.I1, v.sinDipSq))),
      uv |-> FMul(FDiv(FDiv(v.DV, Num(2)), pi),
                  FSub(FMul(v.d, v.qSqTimes3DivRPow5), FMul(v.I5, v.sinDipSq))) ]

\* the east and north columns: Rz^T * ue_un_temp^T
PTDrow(v) ==
    << FAdd(FMul(v.cb, v.t0), FMul(v.sb, v.t1)),
       FSub(FMul(v.cb, v.t1), FMul(v.sb, v.t0)),
       v.uv >>

PTDpoint(x, y, xy0, depth, strikeQ, dipQ, DV, nu) ==
    PTDrow(PTDtemp(PTDintegrals(PTDpowers2(PTDpowers1(PTDradius(PTDsquares(
    PTDrotated(
        [ X |-> FSub(x, xy0[1]),
          Y |-> FSub(y, xy0[2]),
          cb |-> Num(CosQ(strikeQ - 1)),
          sb |-> Num(SinQ(strikeQ - 1)),
          sinDip |-> Num(SinQ(dipQ)),
          cosDip |-> Num(CosQ(dipQ)),
          d |-> depth, DV |-> DV, nu |-> nu ]))))))))

\* PTDdispSurf: one row (ue, un, uv) per observation point: x.size() rows
PTDdispSurf(horizontalCoords, xy0, depth, strikeQ, dipQ, DV, nu) ==
    [i \in 1..Len(horizontalCoords[1]) |->
        PTDpoint(horizontalCoords[1][i], horizontalCoords[2][i],
                 xy0, depth, strikeQ, dipQ, DV, nu)]

\* ArrayX3::resize(inputSize, NoChange) and setZero()
ZeroRows(inputSize) == [i \in 1..inputSize |-> << 0, 0, 0 >>]

----------------------------------------------------------------------------
(* The values offered to the operations *)

\* t_FP values of an observation coordinate: 0.0 and 1.0
CoordValues == { 0, Num(1) }

RECURSIVE SeqsOfLen(_, _)
SeqsOfLen(S, n) ==
    IF n = 0 THEN { << >> }
    ELSE { Append(s, v) : s \in SeqsOfLen(S, n - 1), v \in S }

Zeros(n) == [i \in 1..n |-> 0]

\* arguments of setHorizontalCoords: every pair of equal-length sequences
\* over CoordValues, and one pair for every two different lengths
CoordInputs ==
    UNION { { << xs, ys >> : xs \in SeqsOfLen(CoordValues, n),
                             ys \in SeqsOfLen(CoordValues, n) } : n \in 0..MaxLen }
    \cup { << Zeros(l[1]), Zeros(l[2]) >> :
             l \in { m \in (0..MaxLen) \X (0..MaxLen) : m[1] # m[2] } }

\* horizontalCoord (0.5, -0.25), depth 1.0, no rotation, dv (1, 1, 1), nu 0.25
BaseParameters ==
    [ sourceParameters |->
        [ horizontalCoord |-> << 500, 0 - 250 >>,
          depth |-> Num(1),
          omega |-> << 0, 0, 0 >>,
          dv |-> << Num(1), Num(1), Num(1) >> ],
      nu |-> 250 ]

WithDepth(P, v) == [P EXCEPT !.sourceParameters.depth = v]
WithDv(P, v) == [P EXCEPT !.sourceParameters.dv = v]
WithOmega(P, v) == [P EXCEPT !.sourceParameters.omega = v]
WithOrigin(P, v) == [P EXCEPT !.sourceParameters.horizontalCoord = v]
WithNu(P, v) == [P EXCEPT !.nu = v]

\* arguments of setParameters, and the values the never-initialized
\* m_parameters of a new backend may hold
ParameterInputs ==
    { BaseParameters,
      \* depth one and two epsilon above 1.0
      WithDepth(BaseParameters, Num(1) + Epsilon),
      WithDepth(BaseParameters, Num(1) + 2 * Epsilon),
      \* depth 0 and -0.001
      WithDepth(BaseParameters, 0),
      WithDepth(BaseParameters, 0 - 1),
      WithDepth(BaseParameters, NaN),
      \* potencies: mixed signs, all zero, one zero, all negative
      WithDv(BaseParameters, << Num(1), 0 - Num(1), 0 >>),
      \* mixed signs and a negative depth at once
      WithDepth(WithDv(BaseParameters, << 0 - Num(1), Num(1), 0 >>), 0 - 1),
      WithDv(BaseParameters, << 0, 0, 0 >>),
      WithDv(BaseParameters, << Num(1), 0, Num(2) >>),
      WithDv(BaseParameters, << 0 - Num(1), 0 - Num(1), 0 - Num(1) >>),
      \* a quarter turn about x, and about y and z
      WithOmega(BaseParameters, << Num(90), 0, 0 >>),
      WithOmega(BaseParameters, << 0, Num(90), Num(90) >>),
      \* nu one epsilon above 0.25
      WithNu(BaseParameters, 251),
      \* a source at the surface, under the observation point (0, 0)
      WithOrigin(WithDepth(BaseParameters, 0), << 0, 0 >>),
      \* the same source with two of its potencies zero
      WithDv(WithOrigin(WithDepth(BaseParameters, 0), << 0, 0 >>),
             << Num(1), 0, 0 >>) }

States == { "uninitialized", "parametersChanged", "invalidParameters", "resultsReady" }

NoResults == << << >>, << >>, << >> >>

NoLocals == [strike |-> << >>, dip |-> << >>, solved |-> << >>, ue_un_uv |-> << >>]

----------------------------------------------------------------------------
(* PCDMBackend *)

VARIABLES
    m_state,             \* PCDMBackend::m_state
    m_parameters,        \* PCDMBackend::m_parameters
    m_horizontalCoords,  \* PCDMBackend::m_horizontalCoords
    m_results,           \* PCDMBackend::m_results
    call,                \* the last call made on the backend, with its argument
    prevState,           \* m_state when the last call was made
    stateChanged,        \* the stateChanged signals the last call emitted
    ret,                 \* the State run() returned, "none" after another call
    computed,            \* whether the last call evaluated the displacements
    taken,               \* the arrays the caller holds from takeResults() since
                         \* the last setHorizontalCoords / setParameters
    msg,                 \* what isValid wrote to the local `msg` of the last
                         \* setParameters call, "none" when it was not called
    locals               \* the locals of run() when the last call evaluated the
                         \* displacements, NoLocals otherwise

\* A PCDMProject with one PCDMModel, the threads that run the model's
\* computations, and the thread that owns both objects
VARIABLES
    project,             \* the members of the PCDMProject and its coordinate file
    model,               \* the members of the PCDMModel and its results file
    workers,             \* the runFunc invocations that have not returned yet
    main                 \* the owning thread: its position, the Finished event
                         \* posted to it, and what its last step did

backendVars == << m_state, m_parameters, m_horizontalCoords, m_results,
                  call, prevState, stateChanged, ret, computed, taken, msg, locals >>

modelVars == << project, model, workers, main >>

vars == << m_state, m_parameters, m_horizontalCoords, m_results,
           call, prevState, stateChanged, ret, computed, taken, msg, locals,
           project, model, workers, main >>

\* PCDMBackend::PCDMBackend: m_state is set; the vectors are empty;
\* m_parameters has no initializer and holds an indeterminate value
Init ==
    /\ m_state = "uninitialized"
    /\ m_parameters \in ParameterInputs
    /\ m_horizontalCoords = << << >>, << >> >>
    /\ m_results = NoResults
    /\ call = [op |-> "none"]
    /\ prevState = "uninitialized"
    /\ stateChanged = << >>
    /\ ret = "none"
    /\ computed = FALSE
    /\ taken = NoResults
    /\ msg = "none"
    /\ locals = NoLocals
    \* no PCDMProject and no PCDMModel exist
    /\ project = << >>
    /\ model = << >>
    /\ workers = << >>
    /\ main = << >>

\* setState with the fault "the results are never cleared"
setState_NoClear(state, results) ==
    /\ m_results' = results
    /\ m_state' = state
    /\ stateChanged' = IF m_state # state THEN << state >> ELSE << >>

\* setState with the fault "the signal is emitted without comparing states"
setState_AlwaysEmits(state, results) ==
    /\ m_results' = IF state # "resultsReady" THEN NoResults ELSE results
    /\ m_state' = state
    /\ stateChanged' = << state >>

\* PCDMBackend::setState, called with m_results holding `results`
setState(state, results) ==
    /\ m_results' = IF state # "resultsReady" THEN NoResults ELSE results
    /\ m_state' = state
    /\ stateChanged' = IF m_state # state THEN << state >> ELSE << >>

\* setHorizontalCoords with the fault "no return after the size check":
\* the rejected coordinates are stored like accepted ones
setHorizontalCoords_NoReturn(coords) ==
    /\ call' = [op |-> "setHorizontalCoords", coords |-> coords]
    /\ prevState' = m_state
    /\ ret' = "none"
    /\ computed' = FALSE
    /\ taken' = NoResults
    /\ msg' = "none"
    /\ locals' = NoLocals
    /\ UNCHANGED m_parameters
    /\ m_horizontalCoords' = coords
    /\ m_results' = NoResults
    /\ m_state' = "parametersChanged"
    /\ stateChanged' = IF m_state # "parametersChanged"
                       THEN << "parametersChanged" >> ELSE << >>

\* PCDMBackend::setHorizontalCoords
setHorizontalCoords(coords) ==
    /\ call' = [op |-> "setHorizontalCoords", coords |-> coords]
    /\ prevState' = m_state
    /\ ret' = "none"
    /\ computed' = FALSE
    /\ taken' = NoResults
    /\ msg' = "none"
    /\ locals' = NoLocals
    /\ UNCHANGED m_parameters
    /\ IF Len(coords[1]) # Len(coords[2])
       THEN /\ setState("invalidParameters", m_results)
            /\ UNCHANGED m_horizontalCoords
       ELSE /\ m_horizontalCoords' = coords
            /\ setState("parametersChanged", m_results)

\* setParameters with the fault "compares bit by bit, not by operator=="
setParameters_ExactCompare(parameters) ==
    /\ call' = [op |-> "setParameters", parameters |-> parameters]
    /\ prevState' = m_state
    /\ ret' = "none"
    /\ computed' = FALSE
    /\ locals' = NoLocals
    /\ UNCHANGED m_horizontalCoords
    /\ IF m_parameters = parameters
       THEN /\ stateChanged' = << >>
            /\ msg' = "none"
            /\ UNCHANGED << m_state, m_parameters, m_results, taken >>
       ELSE /\ m_parameters' = parameters
            /\ taken' = NoResults
            /\ msg' = isValidMessage(parameters.sourceParameters)
            /\ IF ~isValid(parameters.sourceParameters)
               THEN setState("invalidParameters", m_results)
               ELSE setState("parametersChanged", m_results)

\* setParameters with the fault "the result of isValid is ignored"
setParameters_NoValidation(parameters) ==
    /\ call' = [op |-> "setParameters", parameters |-> parameters]
    /\ prevState' = m_state
    /\ ret' = "none"
    /\ computed' = FALSE
    /\ locals' = NoLocals
    /\ UNCHANGED m_horizontalCoords
    /\ IF ParametersEq(m_parameters, parameters)
       THEN /\ stateChanged' = << >>
            /\ msg' = "none"
            /\ UNCHANGED << m_state, m_parameters, m_results, taken >>
       ELSE /\ m_parameters' = parameters
            /\ taken' = NoResults
            /\ msg' = isValidMessage(parameters.sourceParameters)
            /\ setState("parametersChanged", m_results)

\* PCDMBackend::setParameters
setParameters(parameters) ==
    /\ call' = [op |-> "setParameters", parameters |-> parameters]
    /\ prevState' = m_state
    /\ ret' = "none"
    /\ computed' = FALSE
    /\ locals' = NoLocals
    /\ UNCHANGED m_horizontalCoords
    /\ IF ParametersEq(m_parameters, parameters)
       THEN /\ stateChanged' = << >>
            /\ msg' = "none"
            /\ UNCHANGED << m_state, m_parameters, m_results, taken >>
       ELSE /\ m_parameters' = parameters
            /\ taken' = NoResults
            /\ msg' = isValidMessage(parameters.sourceParameters)
            /\ IF ~isValid(parameters.sourceParameters)
               THEN setState("invalidParameters", m_results)
               ELSE setState("parametersChanged", m_results)

\* InvokesSolver with the fault "the zero potency is not short-circuited"
InvokesSolver_Always(parameters, k) == TRUE

\* the test `DV[k] != 0` that guards the call of PTDdispSurf for axis k
InvokesSolver(parameters, k) == FNe(parameters.sourceParameters.dv[k], 0)

\* the contribution of the PTD normal to axis k, as run() computes it
Contribution(horizontalCoords, parameters, R, k) ==
    IF InvokesSolver(parameters, k)
    THEN PTDdispSurf(horizontalCoords,
                     parameters.sourceParameters.horizontalCoord,
                     parameters.sourceParameters.depth,
                     Strike(R, k), Dip(R, k),
                     parameters.sourceParameters.dv[k], parameters.nu)
    ELSE ZeroRows(Len(horizontalCoords[1]))

\* SumColumn with the fault "one tuple short"
SumColumn_OneShort(ue_un_uv1, ue_un_uv2, ue_un_uv3, c) ==
    [i \in 1..Len(ue_un_uv1) - 1 |->
        FAdd(FAdd(ue_un_uv1[i][c], ue_un_uv2[i][c]), ue_un_uv3[i][c])]

\* SumColumn with the fault "the third contribution is left out"
SumColumn_WithoutThird(ue_un_uv1, ue_un_uv2, ue_un_uv3, c) ==
    [i \in 1..Len(ue_un_uv1) |-> FAdd(ue_un_uv1[i][c], ue_un_uv2[i][c])]

\* ue_un_uv1.col(c) + ue_un_uv2.col(c) + ue_un_uv3.col(c), numTuples long
SumColumn(ue_un_uv1, ue_un_uv2, ue_un_uv3, c) ==
    [i \in 1..Len(ue_un_uv1) |->
        FAdd(FAdd(ue_un_uv1[i][c], ue_un_uv2[i][c]), ue_un_uv3[i][c])]

\* the three arrays ue, un, uv written to m_results
Superpose(ue_un_uv1, ue_un_uv2, ue_un_uv3) ==
    << SumColumn(ue_un_uv1, ue_un_uv2, ue_un_uv3, 1),
       SumColumn(ue_un_uv1, ue_un_uv2, ue_un_uv3, 2),
       SumColumn(ue_un_uv1, ue_un_uv2, ue_un_uv3, 3) >>

\* the computation of run(): the three PTD contributions and their sum
Contributions(horizontalCoords, parameters, R) ==
    Superpose(Contribution(horizontalCoords, parameters, R, 1),
              Contribution(horizontalCoords, parameters, R, 2),
              Contribution(horizontalCoords, parameters, R, 3))

Displacements(horizontalCoords, parameters) ==
    Contributions(horizontalCoords, parameters,
                  Rotation(parameters.sourceParameters.omega))

\* the locals of run() at its return: strike and dip of the three PTDs (in
\* quarter turns), whether PTDdispSurf was called for each, and ue_un_uv1..3
runLocals(horizontalCoords, parameters, R) ==
    [strike   |-> << Strike(R, 1), Strike(R, 2), Strike(R, 3) >>,
     dip      |-> << Dip(R, 1), Dip(R, 2), Dip(R, 3) >>,
     solved   |-> << InvokesSolver(parameters, 1), InvokesSolver(parameters, 2),
                     InvokesSolver(parameters, 3) >>,
     ue_un_uv |-> << Contribution(horizontalCoords, parameters, R, 1),
                     Contribution(horizontalCoords, parameters, R, 2),
                     Contribution(horizontalCoords, parameters, R, 3) >>]

\* runReturnsAtOnce with the fault "resultsReady falls through to the computation"
runReturnsAtOnce_ReadyFallsThrough(state) == state = "invalidParameters"

\* runReturnsAtOnce with the fault "invalidParameters falls through to the
\* computation"
runReturnsAtOnce_InvalidFallsThrough(state) == state = "resultsReady"

\* runReturnsAtOnce with the fault "uninitialized returns at once, too"
runReturnsAtOnce_UninitializedToo(state) == state # "parametersChanged"

\* the switch at the head of run(): the states in which run() returns
\* m_state without doing anything
runReturnsAtOnce(state) == state \in { "invalidParameters", "resultsReady" }

\* run with the fault "the check for empty coordinates is missing"
run_NoEmptyCheck ==
    /\ call' = [op |-> "run"]
    /\ prevState' = m_state
    /\ msg' = "none"
    /\ UNCHANGED << m_parameters, m_horizontalCoords, taken >>
    /\ IF runReturnsAtOnce(m_state)
       THEN /\ ret' = m_state
            /\ computed' = FALSE
            /\ locals' = NoLocals
            /\ stateChanged' = << >>
            /\ UNCHANGED << m_state, m_results >>
       ELSE IF Len(m_horizontalCoords[1]) # Len(m_horizontalCoords[2])
       THEN /\ setState("invalidParameters", m_results)
            /\ ret' = m_state'
            /\ computed' = FALSE
            /\ locals' = NoLocals
       ELSE /\ setState("resultsReady",
                        Displacements(m_horizontalCoords, m_parameters))
            /\ ret' = m_state'
            /\ computed' = TRUE
            /\ locals' = runLocals(m_horizontalCoords, m_parameters,
                                   Rotation(m_parameters.sourceParameters.omega))

\* run with the fault "the computation moves the coordinates out of the member"
run_ConsumesCoords ==
    /\ call' = [op |-> "run"]
    /\ prevState' = m_state
    /\ msg' = "none"
    /\ UNCHANGED << m_parameters, taken >>
    /\ IF runReturnsAtOnce(m_state)
       THEN /\ ret' = m_state
            /\ computed' = FALSE
            /\ locals' = NoLocals
            /\ stateChanged' = << >>
            /\ UNCHANGED << m_state, m_results, m_horizontalCoords >>
       ELSE IF Len(m_horizontalCoords[1]) # Len(m_horizontalCoords[2])
       THEN /\ setState("invalidParameters", m_results)
            /\ ret' = m_state'
            /\ computed' = FALSE
            /\ locals' = NoLocals
            /\ UNCHANGED m_horizontalCoords
       ELSE IF Len(m_horizontalCoords[1]) = 0
       THEN /\ setState("invalidParameters", m_results)
            /\ ret' = m_state'
            /\ computed' = FALSE
            /\ locals' = NoLocals
            /\ UNCHANGED m_horizontalCoords
       ELSE /\ setState("resultsReady",
                        Displacements(m_horizontalCoords, m_parameters))
            /\ ret' = m_state'
            /\ computed' = TRUE
            /\ locals' = runLocals(m_horizontalCoords, m_parameters,
                                   Rotation(m_parameters.sourceParameters.omega))
            /\ m_horizontalCoords' = << << >>, << >> >>

\* PCDMBackend::run
run ==
    /\ call' = [op |-> "run"]
    /\ prevState' = m_state
    /\ msg' = "none"
    /\ UNCHANGED << m_parameters, m_horizontalCoords, taken >>
    /\ IF runReturnsAtOnce(m_state)
       THEN /\ ret' = m_state
            /\ computed' = FALSE
            /\ locals' = NoLocals
            /\ stateChanged' = << >>
            /\ UNCHANGED << m_state, m_results >>
       ELSE IF Len(m_horizontalCoords[1]) # Len(m_horizontalCoords[2])
       THEN /\ setState("invalidParameters", m_results)
            /\ ret' = m_state'
            /\ computed' = FALSE
            /\ locals' = NoLocals
       ELSE IF Len(m_horizontalCoords[1]) = 0
       THEN /\ setState("invalidParameters", m_results)
            /\ ret' = m_state'
            /\ computed' = FALSE
            /\ locals' = NoLocals
       ELSE /\ setState("resultsReady",
                        Displacements(m_horizontalCoords, m_parameters))
            /\ ret' = m_state'
            /\ computed' = TRUE
            /\ locals' = runLocals(m_horizontalCoords, m_parameters,
                                   Rotation(m_parameters.sourceParameters.omega))

\* takeResults with the fault "the coordinates are handed out with the results"
takeResults_TakesCoords(moved) ==
    /\ call' = [op |-> "takeResults", moved |-> moved]
    /\ prevState' = m_state
    /\ ret' = "none"
    /\ computed' = FALSE
    /\ stateChanged' = << >>
    /\ taken' = m_results
    /\ msg' = "none"
    /\ locals' = NoLocals
    /\ m_state' = IF m_state = "resultsReady" THEN "parametersChanged" ELSE m_state
    /\ m_results' = IF moved THEN NoResults ELSE m_results
    /\ m_horizontalCoords' = << << >>, << >> >>
    /\ UNCHANGED m_parameters

\* PCDMBackend::takeResults.  It returns an rvalue reference to m_results and
\* moves nothing itself: m_results is emptied when the caller move-constructs
\* or move-assigns from the reference (moved), and keeps its elements when the
\* caller binds or drops the reference.  The state is assigned directly, not
\* through setState.  With assert compiled out the call proceeds in every state.
takeResults(moved) ==
    /\ call' = [op |-> "takeResults", moved |-> moved]
    /\ prevState' = m_state
    /\ ret' = "none"
    /\ computed' = FALSE
    /\ stateChanged' = << >>
    /\ taken' = m_results
    /\ msg' = "none"
    /\ locals' = NoLocals
    /\ m_state' = IF m_state = "resultsReady" THEN "parametersChanged" ELSE m_state
    /\ m_results' = IF moved THEN NoResults ELSE m_results
    /\ UNCHANGED << m_parameters, m_horizontalCoords >>

Next ==
    \/ \E coords \in CoordInputs :
          setHorizontalCoords(coords) /\ UNCHANGED modelVars
    \/ \E parameters \in ParameterInputs :
          setParameters(parameters) /\ UNCHANGED modelVars
    \/ run /\ UNCHANGED modelVars
    \/ \E moved \in BOOLEAN : takeResults(moved) /\ UNCHANGED modelVars

Spec == Init /\ [][Next]_vars

TypeOK ==
    /\ m_state \in States
    /\ m_parameters \in ParameterInputs
    /\ m_horizontalCoords \in CoordInputs
    /\ Len(m_results) = 3

----------------------------------------------------------------------------
(* PCDMProject and PCDMModel (src/PCDMProject.cpp, src/PCDMModel.cpp): one   *)
(* project with one model.  The owning thread calls the public operations;  *)
(* each runFunc started by requestResultsAsync runs on a thread of its own.  *)
(* The result arrays are kept as the three array sizes together with the    *)
(* parameters they were computed from.                                       *)

\* the owning thread calls requestResultsAsync at most MaxRequests times
MaxRequests == 3

\* source parameters of the model: two valid ones and one with mixed signs
SourceInputs ==
    { BaseParameters.sourceParameters,
      WithDv(BaseParameters, << Num(1), 0, Num(2) >>).sourceParameters,
      WithDv(BaseParameters, << Num(1), 0 - Num(1), 0 >>).sourceParameters }

NuInputs == { 250, 300 }

\* values the never-initialized m_parameters of the backend in runFunc may
\* hold: each value the project can ask for, and one it never asks for
GarbageInputs ==
    { [sourceParameters |-> p, nu |-> v] : p \in SourceInputs, v \in NuInputs }
    \cup { WithDepth(BaseParameters, Num(5)) }

\* a vtkDataSet: its class and the x and y of its points
NoDataSet == [kind |-> "null", coords |-> << << >>, << >> >>]

PointCloud1 == [kind |-> "vtkPolyData", coords |-> << << 0 >>, << 0 >> >>]

DataSetInputs ==
    { [kind |-> "vtkPolyData", coords |-> << << >>, << >> >>],
      PointCloud1,
      [kind |-> "vtkImageData", coords |-> << << 0, Num(1) >>, << 0, 0 >> >>],
      [kind |-> "vtkUnstructuredGrid", coords |-> << << 0 >>, << 0 >> >>] }

\* three empty result arrays
NoModelResults == [sizes |-> << 0, 0, 0 >>, from |-> << >>]

\* three result arrays of n values each, computed by a backend that held
\* `parameters`
ModelResults(n, parameters) ==
    [sizes |-> << n, n, n >>,
     from |-> << parameters.sourceParameters, parameters.nu >>]

\* PCDMProject::numHorizontalCoordinates
numHorizontalCoordinates(p) ==
    IF p.m_coordsDataSet.kind = "null" THEN 0
    ELSE Len(p.m_coordsDataSet.coords[1])

\* PCDMProject::horizontalCoordinateValues: the project after the call, which
\* fills m_horizontalCoordsValues from the data set when they are empty
horizontalCoordinateValues(p) ==
    IF Len(p.m_horizontalCoordsValues[1]) # 0 THEN p
    ELSE IF p.m_coordsDataSet.kind = "null" THEN p
    ELSE [p EXCEPT !.m_horizontalCoordsValues = p.m_coordsDataSet.coords]

\* PCDMModel::loadedResultsAreValid
loadedResultsAreValid(m, p) ==
    /\ m.m_results.sizes[1] # 0
    /\ \A c \in 1..3 : m.m_results.sizes[c] = numHorizontalCoordinates(p)

\* PCDMModel::hasResults
hasResults(m, p) == loadedResultsAreValid(m, p) \/ m.m_hasStoredResults

\* PCDMModel::invalidateResults
invalidateResults(m) ==
    [m EXCEPT !.m_results = NoModelResults,
              !.resultsFile = NoModelResults,
              !.m_hasStoredResults = FALSE]

\* PCDMModel::readResults; readOk: the file can be opened and read
readResults(m, p, readOk) ==
    IF ~m.m_hasStoredResults
    THEN [m EXCEPT !.resultsFile = NoModelResults]
    ELSE IF readOk /\ m.resultsFile.sizes[1] = numHorizontalCoordinates(p)
    THEN [m EXCEPT !.m_results = m.resultsFile]
    ELSE [m EXCEPT !.resultsFile = NoModelResults,
                   !.m_hasStoredResults = FALSE]

\* PCDMModel::storeResults; writeOk: the file can be written
storeResults(m, p, writeOk) ==
    IF \/ m.m_results.sizes[1] = 0
       \/ ~(\A c \in 1..3 : m.m_results.sizes[c] = numHorizontalCoordinates(p))
    THEN m
    ELSE IF writeOk
    THEN [m EXCEPT !.resultsFile = m.m_results, !.m_hasStoredResults = TRUE]
    ELSE [m EXCEPT !.resultsFile = NoModelResults, !.m_hasStoredResults = FALSE]

\* the backend calls of runFunc on its new backend, whose m_parameters hold
\* `garbage`: setHorizontalCoords, setParameters, run, state() and
\* takeResults.  ready: the backend ended in resultsReady
backendCalls(garbage, coords, parameters) ==
    IF ParametersEq(garbage, parameters)
    THEN \* setParameters returns at once: nothing is stored or validated
         IF Len(coords[1]) = 0
         THEN [ready |-> FALSE, results |-> NoModelResults]
         ELSE [ready |-> TRUE, results |-> ModelResults(Len(coords[1]), garbage)]
    ELSE IF ~isValid(parameters.sourceParameters) \/ Len(coords[1]) = 0
    THEN [ready |-> FALSE, results |-> NoModelResults]
    ELSE [ready |-> TRUE, results |-> ModelResults(Len(coords[1]), parameters)]

\* EmitOnExit::~EmitOnExit with the fault "nothing is emitted"
emitOnExit_Never(skipEmit) == 0

\* EmitOnExit::~EmitOnExit: the number of requestCompleted it emits
emitOnExit(skipEmit) == IF skipEmit THEN 0 ELSE 1

\* waitForFinished with the fault "returns while a computation is running"
waitForFinished_NoWait(w) == TRUE

\* m_computeFutureWatcher.waitForFinished() returns: the future of the
\* watcher is finished, or the watcher never had one
waitForFinished(w) == \A i \in 1..Len(w) : ~w[i].watched

\* what the last step did: the operation, the value it returned, and the
\* number of requestCompleted it emitted
Did(mn, op, returned, emitted) ==
    [mn EXCEPT !.op = op, !.ret = returned, !.emitted = emitted,
               !.awaiting = IF emitted > 0 THEN FALSE ELSE @]

RemoveAt(w, i) == SubSeq(w, 1, i - 1) \o SubSeq(w, i + 1, Len(w))

\* PCDMProject::PCDMProject and PCDMModel::PCDMModel: nu, the coordinates,
\* the parameters and HasStoredResults are read from the project folder; the
\* results file found there was written for them
ModelInit ==
    /\ m_state = "uninitialized"
    /\ m_parameters = BaseParameters
    /\ m_horizontalCoords = << << >>, << >> >>
    /\ m_results = NoResults
    /\ call = [op |-> "none"]
    /\ prevState = "uninitialized"
    /\ stateChanged = << >>
    /\ ret = "none"
    /\ computed = FALSE
    /\ taken = NoResults
    /\ msg = "none"
    /\ locals = NoLocals
    /\ \E nu \in NuInputs, dataSet \in { NoDataSet, PointCloud1 } :
          project = [m_nu |-> nu,
                     m_coordsDataSet |-> dataSet,
                     m_horizontalCoordsValues |-> << << >>, << >> >>,
                     m_coordsGeometryType |->
                         IF dataSet.kind = "null" THEN "" ELSE "Point Cloud",
                     coordsFile |->
                         IF dataSet.kind = "null" THEN "" ELSE "Point Cloud"]
    /\ \E sourceParameters \in SourceInputs, stored \in BOOLEAN :
          model = [m_parameters |-> sourceParameters,
                   m_results |-> NoModelResults,
                   m_hasStoredResults |->
                       stored /\ numHorizontalCoordinates(project) > 0,
                   resultsFile |->
                       IF stored /\ numHorizontalCoordinates(project) > 0
                       THEN ModelResults(numHorizontalCoordinates(project),
                                         [sourceParameters |-> sourceParameters,
                                          nu |-> project.m_nu])
                       ELSE NoModelResults]
    /\ workers = << >>
    /\ main = [pc |-> "idle", finished |-> FALSE, op |-> "none", ret |-> TRUE,
               emitted |-> 0, awaiting |-> FALSE, requests |-> 0]

\* PCDMModel::setParameters
PCDMModel_setParameters(sourceParameters) ==
    /\ main.pc = "idle"
    /\ main' = Did(main, "setParameters", TRUE, 0)
    /\ model' = IF SourceEq(model.m_parameters, sourceParameters)
                THEN model
                ELSE invalidateResults(
                         [model EXCEPT !.m_parameters = sourceParameters])
    /\ UNCHANGED << project, workers >>

\* PCDMProject::setPoissonsRatio
setPoissonsRatio(nu) ==
    /\ main.pc = "idle"
    /\ main' = Did(main, "setPoissonsRatio", TRUE, 0)
    /\ IF ~FNe(nu, project.m_nu)
       THEN UNCHANGED << project, model >>
       ELSE /\ project' = [project EXCEPT !.m_nu = nu]
            /\ model' = invalidateResults(model)
    /\ UNCHANGED workers

\* the lambda applyNewDataSet of importHorizontalCoordinatesFrom
applyNewDataSet(p, newDataSet, dataTypeString) ==
    [p EXCEPT !.m_horizontalCoordsValues = << << >>, << >> >>,
              !.m_coordsDataSet = newDataSet,
              !.m_coordsGeometryType = dataTypeString]

\* PCDMProject::importHorizontalCoordinatesFrom; writeOk: the coordinate file
\* can be written
importHorizontalCoordinatesFrom(dataSet, writeOk) ==
    /\ main.pc = "idle"
    /\ UNCHANGED workers
    /\ IF Len(dataSet.coords[1]) = 0
       THEN /\ main' = Did(main, "importHorizontalCoordinatesFrom", FALSE, 0)
            /\ UNCHANGED << project, model >>
       ELSE IF dataSet.kind = "vtkImageData"
       THEN /\ main' = Did(main, "importHorizontalCoordinatesFrom", TRUE, 0)
            /\ model' = invalidateResults(model)
            /\ project' = applyNewDataSet(
                              [project EXCEPT !.coordsFile = "Regular Grid"],
                              dataSet, "Regular Grid")
       ELSE IF dataSet.kind = "vtkPolyData"
       THEN IF ~writeOk
            THEN /\ main' = Did(main, "importHorizontalCoordinatesFrom", FALSE, 0)
                 /\ project' = [project EXCEPT
                                   !.m_horizontalCoordsValues = dataSet.coords]
                 /\ UNCHANGED model
            ELSE /\ main' = Did(main, "importHorizontalCoordinatesFrom", TRUE, 0)
                 /\ model' = invalidateResults(model)
                 /\ project' = applyNewDataSet(
                                   [project EXCEPT !.coordsFile = "Point Cloud"],
                                   dataSet, "Point Cloud")
       ELSE /\ main' = Did(main, "importHorizontalCoordinatesFrom", FALSE, 0)
            /\ UNCHANGED << project, model >>

\* PCDMModel::requestResultsAsync, up to waitForResults()
requestResultsAsync ==
    /\ main.pc = "idle"
    /\ main.requests < MaxRequests
    /\ main' = [main EXCEPT !.pc = "waiting", !.op = "requestResultsAsync",
                            !.ret = TRUE, !.emitted = 0, !.awaiting = TRUE,
                            !.requests = @ + 1]
    /\ UNCHANGED << project, model, workers >>

\* PCDMModel::requestResultsAsync, from the return of waitForResults() on
requestResultsAsync_afterWait(readOk) ==
    /\ main.pc = "waiting"
    /\ waitForFinished(workers)
    /\ UNCHANGED project
    /\ IF loadedResultsAreValid(model, project)
       THEN /\ main' = Did([main EXCEPT !.pc = "idle"], "requestResultsAsync_afterWait",
                           TRUE, emitOnExit(FALSE))
            /\ UNCHANGED << model, workers >>
       ELSE IF /\ model.m_hasStoredResults
               /\ loadedResultsAreValid(readResults(model, project, readOk), project)
       THEN /\ main' = Did([main EXCEPT !.pc = "idle"], "requestResultsAsync_afterWait",
                           TRUE, emitOnExit(FALSE))
            /\ model' = readResults(model, project, readOk)
            /\ UNCHANGED workers
       ELSE /\ model' = IF model.m_hasStoredResults
                        THEN readResults(model, project, readOk) ELSE model
            \* QtConcurrent::run, and setFuture, which drops the events the
            \* previous future posted
            /\ workers' = Append([i \in 1..Len(workers) |->
                                     [workers[i] EXCEPT !.watched = FALSE]],
                                 [pc |-> "start", watched |-> TRUE, ready |-> FALSE,
                                  results |-> NoModelResults])
            /\ main' = Did([main EXCEPT !.pc = "idle", !.finished = FALSE],
                           "requestResultsAsync_afterWait", TRUE, emitOnExit(TRUE))

\* runFunc returns: the future finishes, and the watcher that holds it has
\* the Finished event posted to the owning thread
runFuncReturns(i) ==
    /\ workers' = RemoveAt(workers, i)
    /\ main' = Did([main EXCEPT !.finished = @ \/ workers[i].watched],
                   "runFunc", TRUE, 0)

\* runFunc, the calls on the backend
runFunc_run(i, garbage) ==
    /\ workers[i].pc = "start"
    /\ project' = horizontalCoordinateValues(project)
    /\ workers' = [workers EXCEPT ![i] =
           [pc |-> "ran", watched |-> @.watched,
            ready |-> backendCalls(garbage, project'.m_horizontalCoordsValues,
                                   [sourceParameters |-> model.m_parameters,
                                    nu |-> project.m_nu]).ready,
            results |-> backendCalls(garbage, project'.m_horizontalCoordsValues,
                                     [sourceParameters |-> model.m_parameters,
                                      nu |-> project.m_nu]).results]]
    /\ main' = Did(main, "runFunc", TRUE, 0)
    /\ UNCHANGED model

\* runFunc, from the test of backend.state() to the assignment of m_results
runFunc_take(i) ==
    /\ workers[i].pc = "ran"
    /\ UNCHANGED project
    /\ IF ~workers[i].ready
       THEN /\ model' = invalidateResults(model)
            /\ runFuncReturns(i)
       ELSE /\ model' = [model EXCEPT !.m_results = workers[i].results]
            /\ workers' = [workers EXCEPT ![i].pc = "taken"]
            /\ main' = Did(main, "runFunc", TRUE, 0)

\* runFunc, storeResults()
runFunc_store(i, writeOk) ==
    /\ workers[i].pc = "taken"
    /\ model' = storeResults(model, project, writeOk)
    /\ runFuncReturns(i)
    /\ UNCHANGED project

\* the owning thread takes the Finished event from its queue:
\* QFutureWatcher::finished, connected to PCDMModel::requestCompleted
finished ==
    /\ main.pc = "idle"
    /\ main.finished
    /\ main' = Did([main EXCEPT !.finished = FALSE], "finished", TRUE, 1)
    /\ UNCHANGED << project, model, workers >>

runFunc ==
    \E i \in 1..Len(workers) :
        \/ \E garbage \in GarbageInputs : runFunc_run(i, garbage)
        \/ runFunc_take(i)
        \/ \E writeOk \in BOOLEAN : runFunc_store(i, writeOk)

ModelNext ==
    \/ \E sourceParameters \in SourceInputs :
          PCDMModel_setParameters(sourceParameters) /\ UNCHANGED backendVars
    \/ \E nu \in NuInputs : setPoissonsRatio(nu) /\ UNCHANGED backendVars
    \/ \E dataSet \in DataSetInputs, writeOk \in BOOLEAN :
          importHorizontalCoordinatesFrom(dataSet, writeOk) /\ UNCHANGED backendVars
    \/ requestResultsAsync /\ UNCHANGED backendVars
    \/ \E readOk \in BOOLEAN :
          requestResultsAsync_afterWait(readOk) /\ UNCHANGED backendVars
    \/ runFunc /\ UNCHANGED backendVars
    \/ finished /\ UNCHANGED backendVars

ModelSpec == ModelInit /\ [][ModelNext]_vars

\* the threads of the pool run, a blocked call proceeds once its wait is
\* over, and the event loop of the owning thread takes the posted event
ModelLiveSpec ==
    /\ ModelSpec
    /\ WF_vars(runFunc /\ UNCHANGED backendVars)
    /\ WF_vars(\E readOk \in BOOLEAN :
                  requestResultsAsync_afterWait(readOk) /\ UNCHANGED backendVars)
    /\ WF_vars(finished /\ UNCHANGED backendVars)

----------------------------------------------------------------------------
(* Properties *)

AllNonEmpty(results) == \A k \in 1..3 : Len(results[k]) > 0
AllEmpty(results) == \A k \in 1..3 : Len(results[k]) = 0
SameLength(coords) == Len(coords[1]) = Len(coords[2])

\* C1: in every reachable state the three result arrays are non-empty if and
\* only if the lifecycle state is resultsReady.
C1_ResultsNonEmptyIffReady ==
    AllNonEmpty(m_results) <=> m_state = "resultsReady"

\* C2: the backend is never in resultsReady while its stored source
\* parameters fail isValid.
C2_NeverReadyWithInvalidParameters ==
    m_state = "resultsReady" => isValid(m_parameters.sourceParameters)

\* C3: a run() made in resultsReady returns resultsReady, leaves the state,
\* the results, the coordinates and the parameters as they are, emits nothing
\* and does not evaluate the displacements again.
C3_RunInReadyIsNoOp ==
    [][ (m_state = "resultsReady" /\ call'.op = "run")
        => /\ ret' = "resultsReady"
           /\ m_state' = "resultsReady"
           /\ m_results' = m_results
           /\ m_horizontalCoords' = m_horizontalCoords
           /\ m_parameters' = m_parameters
           /\ computed' = FALSE ]_vars

\* a second run() directly after the run() that made the results
C3_Witness ==
    /\ call.op = "run"
    /\ prevState = "resultsReady"
    /\ m_state = "resultsReady"
    /\ AllNonEmpty(m_results)

\* C4: every step that changes the lifecycle state to another value emits
\* stateChanged with the new state.
C4_EveryStateChangeIsNotified ==
    [][ m_state' # m_state => stateChanged' = << m_state' >> ]_vars

\* C5: after takeResults() in resultsReady the caller holds the non-empty
\* arrays of the last run, the state is parametersChanged and the backend's
\* own result storage is empty.
C5_TakeResultsLeavesStorageEmpty ==
    (call.op = "takeResults" /\ prevState = "resultsReady")
    => /\ AllNonEmpty(taken)
       /\ m_state = "parametersChanged"
       /\ AllEmpty(m_results)

\* C6: after setHorizontalCoords with two sequences of different length the
\* state is invalidParameters and the results are empty, whatever the state
\* was before.
C6_UnequalLengthsAreRejected ==
    (call.op = "setHorizontalCoords" /\ ~SameLength(call.coords))
    => /\ m_state = "invalidParameters"
       /\ AllEmpty(m_results)

\* a rejected setHorizontalCoords made while results were ready
C6_Witness ==
    /\ call.op = "setHorizontalCoords"
    /\ ~SameLength(call.coords)
    /\ prevState = "resultsReady"

\* C7: after setHorizontalCoords with two sequences of equal length (the
\* empty ones included) exactly those coordinates are stored, the results are
\* empty and the state is parametersChanged, whatever the state was before.
C7_EqualLengthsAreStored ==
    (call.op = "setHorizontalCoords" /\ SameLength(call.coords))
    => /\ m_horizontalCoords = call.coords
       /\ AllEmpty(m_results)
       /\ m_state = "parametersChanged"

\* new, non-empty coordinates replace the ones results were ready for
C7_Witness ==
    /\ call.op = "setHorizontalCoords"
    /\ SameLength(call.coords)
    /\ Len(call.coords[1]) > 0
    /\ prevState = "resultsReady"

C9_NewParametersAreStoredAndValidated ==
    [][ (call'.op = "setParameters"
         /\ ~ParametersEq(m_parameters, call'.parameters))
        => /\ m_parameters' = call'.parameters
           /\ AllEmpty(m_results')
           /\ m_state' = IF isValid(call'.parameters.sourceParameters)
                         THEN "parametersChanged" ELSE "invalidParameters" ]_vars

\* invalid parameters were passed while results were ready
C9_Witness ==
    /\ call.op = "setParameters"
    /\ prevState = "resultsReady"
    /\ m_state = "invalidParameters"
    /\ m_parameters = call.parameters
    /\ ~isValid(m_parameters.sourceParameters)

\* C10: after run() in uninitialized or parametersChanged with non-empty
\* stored coordinates of equal length the state is resultsReady and each
\* result array is as long as the coordinate sequences.
C10_RunFillsOneResultPerPoint ==
    (/\ call.op = "run"
     /\ prevState \in { "uninitialized", "parametersChanged" }
     /\ SameLength(m_horizontalCoords)
     /\ Len(m_horizontalCoords[1]) > 0)
    => /\ m_state = "resultsReady"
       /\ ret = "resultsReady"
       /\ \A k \in 1..3 : Len(m_results[k]) = Len(m_horizontalCoords[1])

\* a run over more than one observation point
C10_Witness ==
    /\ call.op = "run"
    /\ prevState = "parametersChanged"
    /\ Len(m_horizontalCoords[1]) > 1
    /\ computed


\* C11: run() called in uninitialized or parametersChanged while the stored
\* coordinate sequences are empty ends in invalidParameters, returns
\* invalidParameters and produces no results.
C11_RunWithoutCoordsIsRejected ==
    ( /\ call.op = "run"
      /\ prevState \in { "uninitialized", "parametersChanged" }
      /\ Len(m_horizontalCoords[1]) = 0
      /\ Len(m_horizontalCoords[2]) = 0 )
    => ( /\ m_state = "invalidParameters"
         /\ ret = "invalidParameters"
         /\ stateChanged = << "invalidParameters" >>
         /\ ~computed
         /\ AllEmpty(m_results) )

C11_Witness ==
    /\ call.op = "run"
    /\ prevState = "parametersChanged"
    /\ Len(m_horizontalCoords[1]) = 0
    /\ ret = "invalidParameters"

\* C12: run() called in invalidParameters returns invalidParameters and leaves
\* state, coordinates, parameters and the (empty) results as they were, and no
\* call other than setHorizontalCoords or setParameters leaves invalidParameters.
C12_RunInInvalidIsNoOp ==
    [][ /\ ( m_state = "invalidParameters" /\ call'.op = "run" )
           => ( /\ ret' = "invalidParameters"
                /\ m_state' = "invalidParameters"
                /\ m_horizontalCoords' = m_horizontalCoords
                /\ m_parameters' = m_parameters
                /\ m_results' = m_results
                /\ AllEmpty(m_results')
                /\ stateChanged' = << >> )
        /\ ( m_state = "invalidParameters" /\ m_state' # "invalidParameters" )
           => call'.op \in { "setHorizontalCoords", "setParameters" } ]_vars

C12_Witness ==
    /\ call.op = "run"
    /\ prevState = "invalidParameters"
    /\ ret = "invalidParameters"
    /\ Len(m_horizontalCoords[1]) > 0
    /\ isValid(m_parameters.sourceParameters)

\* C13: resultsReady is entered by run() only, and every setHorizontalCoords
\* call and every setParameters call with parameters unequal to the stored
\* ones, made in resultsReady, leaves resultsReady and empties the results.
C13_ReadyOnlyByRunAndLeftBySetters ==
    [][ /\ ( m_state # "resultsReady" /\ m_state' = "resultsReady" )
           => call'.op = "run"
        /\ ( m_state = "resultsReady" /\ call'.op = "setHorizontalCoords" )
           => ( m_state' # "resultsReady" /\ AllEmpty(m_results') )
        /\ ( /\ m_state = "resultsReady"
             /\ call'.op = "setParameters"
             /\ ~ParametersEq(m_parameters, call'.parameters) )
           => ( m_state' # "resultsReady" /\ AllEmpty(m_results') ) ]_vars

C13_Witness ==
    /\ call.op = "setParameters"
    /\ prevState = "resultsReady"
    /\ m_state = "parametersChanged"
    /\ AllEmpty(m_results)

\* C14: the two stored coordinate sequences have the same length in every
\* reachable state, so that the length check at the head of the computation
\* in run() never fails.
C14_StoredCoordsHaveSameLength ==
    SameLength(m_horizontalCoords)

C14_Witness ==
    /\ call.op = "setHorizontalCoords"
    /\ ~SameLength(call.coords)
    /\ Len(m_horizontalCoords[1]) > 0
    /\ SameLength(m_horizontalCoords)


\* some potency is above zero and some is below
MixedSigns(dv) == \E j, k \in 1..3 : FGt(dv[j], 0) /\ FLt(dv[k], 0)

\* C15: isValid returns true exactly when depth >= 0 and the three potencies
\* share sign (all >= 0 or all <= 0).  Observed at a setParameters call that
\* stores its argument: the state is invalidParameters iff isValid failed.
C15_ValidIffDepthAndSigns ==
    ( call.op = "setParameters" /\ msg # "none" )
    => ( ( m_state # "invalidParameters" )
         <=> ( /\ FGe(call.parameters.sourceParameters.depth, 0)
               /\ \/ \A k \in 1..3 : FGe(call.parameters.sourceParameters.dv[k], 0)
                  \/ \A k \in 1..3 : FLe(call.parameters.sourceParameters.dv[k], 0) ) )

\* C16: when isValid fails, the message it writes is non-empty and names a
\* rule the parameters violate (the potency message only with mixed signs,
\* the depth message only with depth < 0); when it succeeds, the message is
\* empty.
C16_MessageNamesViolatedRule ==
    ( call.op = "setParameters" /\ msg # "none" )
    => ( /\ m_state = "invalidParameters"
            => msg \in { PotencyMessage, DepthMessage }
         /\ msg = PotencyMessage
            => MixedSigns(call.parameters.sourceParameters.dv)
         /\ msg = DepthMessage
            => FLt(call.parameters.sourceParameters.depth, 0)
         /\ m_state # "invalidParameters" => msg = "" )

C16_Witness ==
    /\ call.op = "setParameters"
    /\ m_state = "invalidParameters"
    /\ msg = DepthMessage
    /\ ~MixedSigns(call.parameters.sourceParameters.dv)

\* the two numbers do not differ by more than epsilon (the reading under
\* which a NaN, which differs from nothing by more than epsilon, is within)
WithinEpsilon(a, b) == ~FGt(FAbs(FSub(a, b)), Epsilon)

AllWithinEpsilon(a, b) ==
    /\ \A i \in 1..9 : WithinEpsilon(Scalars(a.sourceParameters)[i],
                                      Scalars(b.sourceParameters)[i])
    /\ WithinEpsilon(a.nu, b.nu)

\* C17: two Parameters values compare equal exactly when every scalar field
\* (source coordinates, depth, omega, dv and nu) is equal within epsilon, and
\* setParameters with such a value is a no-op.  Observed at setParameters:
\* isValid is not called iff the argument compared equal to the stored value.
C17_EqualIffAllWithinEpsilon ==
    [][ call'.op = "setParameters"
        => ( /\ ( msg' = "none" )
                <=> AllWithinEpsilon(m_parameters, call'.parameters)
             /\ AllWithinEpsilon(m_parameters, call'.parameters)
                => ( /\ m_parameters' = m_parameters
                     /\ m_state' = m_state
                     /\ m_results' = m_results
                     /\ stateChanged' = << >> ) ) ]_vars


\* C18: in a run that computes, no axis k with dv[k] = 0 has the PTD solver
\* called; its contribution has one row per input point and is zero
\* throughout.  With dv = (0, 0, 0) the three result arrays have the input
\* length and hold zeros only.
C18_ZeroPotencySkipsSolver ==
    ( call.op = "run" /\ computed )
    => ( /\ \A k \in 1..3 :
              m_parameters.sourceParameters.dv[k] = 0
              => ( /\ ~locals.solved[k]
                   /\ Len(locals.ue_un_uv[k]) = Len(m_horizontalCoords[1])
                   /\ \A i \in 1..Len(locals.ue_un_uv[k]) :
                         locals.ue_un_uv[k][i] = << 0, 0, 0 >> )
         /\ m_parameters.sourceParameters.dv = << 0, 0, 0 >>
            => \A c \in 1..3 :
                  /\ Len(m_results[c]) = Len(m_horizontalCoords[1])
                  /\ \A i \in 1..Len(m_results[c]) : m_results[c][i] = 0 )

C18_Witness ==
    /\ call.op = "run"
    /\ computed
    /\ m_state = "resultsReady"
    /\ m_parameters.sourceParameters.dv = << 0, 0, 0 >>
    /\ Len(m_results[1]) = MaxLen

\* the displacements of one PTD of potency dv[k] normal to axis k
SinglePTD(horizontalCoords, parameters, k) ==
    PTDdispSurf(horizontalCoords,
                parameters.sourceParameters.horizontalCoord,
                parameters.sourceParameters.depth,
                Strike(Rotation(parameters.sourceParameters.omega), k),
                Dip(Rotation(parameters.sourceParameters.omega), k),
                parameters.sourceParameters.dv[k], parameters.nu)

\* component c of the sum of three displacement fields
SumOfThree(u1, u2, u3, c) ==
    [i \in 1..Len(u1) |-> FAdd(FAdd(u1[i][c], u2[i][c]), u3[i][c])]

\* C19: the result of a run that computes equals, at every point and for each
\* of ue, un, uv, the sum of the three single-PTD displacements of potency
\* dv[1], dv[2], dv[3] at the strike and dip derived for the axes x, y, z.
C19_ResultIsSumOfThreePTDs ==
    ( call.op = "run" /\ computed )
    => \A c \in 1..3 :
          m_results[c] = SumOfThree(SinglePTD(m_horizontalCoords, m_parameters, 1),
                                    SinglePTD(m_horizontalCoords, m_parameters, 2),
                                    SinglePTD(m_horizontalCoords, m_parameters, 3), c)

C19_Witness ==
    /\ call.op = "run"
    /\ computed
    /\ \A k \in 1..3 : m_parameters.sourceParameters.dv[k] # 0
    /\ m_parameters.sourceParameters.omega # << 0, 0, 0 >>
    /\ \A c \in 1..3 : m_results[c][1] # 0 /\ m_results[c][1] # NaN
    /\ \E k \in 1..3 : locals.ue_un_uv[k][1] # << 0, 0, 0 >>

\* quarter turns in degrees
Degrees(q) == 90 * q

\* C20: with omega = (0, 0, 0) the dips derived in run() for the PTDs normal
\* to x, y, z are 0, 0, 90 degrees, and the strikes are those of the
\* unrotated axes, 0, -90 and (degenerate, clamped) 0 degrees.
C20_DipsAtZeroRotationAsClaimed ==
    ( /\ call.op = "run"
      /\ computed
      /\ m_parameters.sourceParameters.omega = << 0, 0, 0 >> )
    => ( /\ [k \in 1..3 |-> Degrees(locals.dip[k])] = << 0, 0, 90 >>
         /\ [k \in 1..3 |-> Degrees(locals.strike[k])] = << 0, 0 - 90, 0 >> )

\* C20, amended: with omega = (0, 0, 0) the dips derived in run() for the PTDs
\* normal to x, y, z are 90, 90, 0 degrees, and the strikes are 0, -90 and
\* (degenerate, clamped) 0 degrees.
C20_DipsAtZeroRotation ==
    ( /\ call.op = "run"
      /\ computed
      /\ m_parameters.sourceParameters.omega = << 0, 0, 0 >> )
    => ( /\ [k \in 1..3 |-> Degrees(locals.dip[k])] = << 90, 90, 0 >>
         /\ [k \in 1..3 |-> Degrees(locals.strike[k])] = << 0, 0 - 90, 0 >> )

C20_Witness ==
    /\ call.op = "run"
    /\ computed
    /\ m_parameters.sourceParameters.omega = << 0, 0, 0 >>
    /\ locals.dip = << 1, 1, 0 >>
    /\ locals.strike = << 0, 0 - 1, 0 >>


\* C24: every run() call returns; the state it returns is state() afterwards
\* and is invalidParameters or resultsReady, never uninitialized or
\* parametersChanged.
C24_RunReturnsFinalState ==
    call.op = "run"
    => ( ret = m_state /\ ret \in { "invalidParameters", "resultsReady" } )

C24_Witness ==
    /\ call.op = "run"
    /\ prevState = "uninitialized"
    /\ ret = "invalidParameters"
    /\ m_state = ret

\* C25: run() never modifies the stored coordinates or the stored parameters,
\* whichever state it is called in and whichever path it takes.
C25_RunKeepsCoordsAndParameters ==
    [][ call'.op = "run"
        => ( /\ m_horizontalCoords' = m_horizontalCoords
             /\ m_parameters' = m_parameters ) ]_vars

C25_Witness ==
    /\ call.op = "run"
    /\ computed
    /\ ret = "resultsReady"
    /\ Len(m_horizontalCoords[1]) = MaxLen
    /\ Len(m_results[1]) = MaxLen

\* C26: a setHorizontalCoords call rejected for unequal lengths leaves the
\* stored coordinates and the stored parameters as they were; the state
\* becomes invalidParameters and the results are emptied.
C26_RejectedCoordsChangeStateAndResultsOnly ==
    [][ ( call'.op = "setHorizontalCoords" /\ ~SameLength(call'.coords) )
        => ( /\ m_horizontalCoords' = m_horizontalCoords
             /\ m_parameters' = m_parameters
             /\ m_state' = "invalidParameters"
             /\ AllEmpty(m_results') ) ]_vars

C26_Witness ==
    /\ call.op = "setHorizontalCoords"
    /\ ~SameLength(call.coords)
    /\ prevState = "resultsReady"
    /\ m_state = "invalidParameters"
    /\ Len(m_horizontalCoords[1]) > 0
    /\ AllEmpty(m_results)

\* C27: resultsReady is entered from parametersChanged only, and run() called
\* in uninitialized ends in invalidParameters, the stored coordinates being
\* empty as long as the state is uninitialized.
C27_ReadyOnlyFromParametersChanged ==
    [][ /\ ( m_state # "resultsReady" /\ m_state' = "resultsReady" )
           => m_state = "parametersChanged"
        /\ m_state' = "uninitialized" => Len(m_horizontalCoords'[1]) = 0
        /\ ( m_state = "uninitialized" /\ call'.op = "run" )
           => m_state' = "invalidParameters" ]_vars

C27_Witness ==
    /\ call.op = "run"
    /\ prevState = "uninitialized"
    /\ m_state = "invalidParameters"
    /\ stateChanged = << "invalidParameters" >>

\* C28: a call that leaves the lifecycle state as it was emits no
\* stateChanged; every emitted stateChanged carries the new state, which
\* differs from the state before the call.
C28_NoNotificationWithoutChange ==
    /\ m_state = prevState => stateChanged = << >>
    /\ stateChanged # << >>
       => ( stateChanged = << m_state >> /\ m_state # prevState )

C28_Witness ==
    /\ call.op = "setHorizontalCoords"
    /\ prevState = "parametersChanged"
    /\ m_state = "parametersChanged"
    /\ stateChanged = << >>

\* C29: a run() that follows takeResults() made in resultsReady, with no
\* setHorizontalCoords or setParameters in between, ends in resultsReady with
\* result arrays equal to the ones taken.
C29_RecomputationGivesTakenResults ==
    ( /\ call.op = "run"
      /\ prevState = "parametersChanged"
      /\ AllNonEmpty(taken) )
    => ( /\ m_state = "resultsReady"
         /\ ret = "resultsReady"
         /\ m_results = taken )

C29_Witness ==
    /\ call.op = "run"
    /\ prevState = "parametersChanged"
    /\ AllNonEmpty(taken)
    /\ computed
    /\ m_results = taken


\* C21: whenever the model has results (hasResults() is true), the results,
\* loaded or stored, were computed from the model's current source parameters
\* and the project's current Poisson's ratio.
C21_ResultsAreOfCurrentParameters ==
    /\ loadedResultsAreValid(model, project)
       => model.m_results.from = << model.m_parameters, project.m_nu >>
    /\ model.m_hasStoredResults
       => model.resultsFile.from = << model.m_parameters, project.m_nu >>


\* C22: every call of requestResultsAsync is eventually followed by an
\* emission of requestCompleted, whether the results were loaded already,
\* were restored from the results file, or a computation was started.
C22_RequestIsFollowedByRequestCompleted ==
    main.awaiting ~> ( ~main.awaiting /\ main.emitted = 1 )

C22_Witness ==
    /\ main.op = "finished"
    /\ main.emitted = 1
    /\ main.requests > 0
    /\ ~hasResults(model, project)

\* C30: at most one runFunc is in flight at any time; a computation is
\* started only when none is in flight, no valid results are loaded, and none
\* could be restored from the results file.
C30_AtMostOneComputationInFlight ==
    [][ /\ Len(workers') <= 1
        /\ Len(workers') > Len(workers)
           => ( /\ workers = << >>
                /\ ~loadedResultsAreValid(model, project)
                /\ ~hasResults(model', project') ) ]_vars

C30_Witness ==
    /\ main.pc = "waiting"
    /\ Len(workers) = 1
    /\ workers[1].pc = "taken"
    /\ loadedResultsAreValid(model, project)


\* C23: a call of importHorizontalCoordinatesFrom that returns false leaves
\* the project (stored coordinate values, data set, geometry type) and the
\* model results unchanged.
C23_FailedImportChangesNothing ==
    [][ ( main'.op = "importHorizontalCoordinatesFrom" /\ main'.ret = FALSE
          /\ main' # main )
        => ( project' = project /\ model' = model ) ]_vars

=============================================================================
